---- MODULE Spec2Model ----
(***************************************************************************)
(* fersk: run a command in a private, freshly synchronised clone of a git  *)
(* repository.  The model follows `main` (src/src/main.rs) step by step:   *)
(* one action per external operation (a git invocation, a filesystem call, *)
(* the user command), with several invocations of the program running as   *)
(* separate processes against one work root.                               *)
(*                                                                         *)
(* Paths, ref names and remote names are strings, built with \o exactly    *)
(* where the program builds them with format!/join.                        *)
(***************************************************************************)
EXTENDS Integers, Sequences, FiniteSets, TLC

\* ------------------------------------------------------------- bounds ----
\* Number of process slots: invocations that may be alive at the same time.
NProcs == 2

Procs == 1..NProcs
NoPid == 0

\* ---------------------------------------------------------- constants ----
FERSK_ORIGIN == "fersk-origin"

None == "none"

\* The world of the model: one source repository "s1" (with a sub-directory),
\* a second repository "s2", and a directory "tmp" outside any repository.
Sources == {"s1", "s2"}
WorkRoot == "w"
Commits == {"X", "Y"}
Branches == {"main"}
\* Remote names git may know: the reserved one, git's default, and a
\* third-party remote of the source repository with URL UpstreamUrl.
RemoteNames == {FERSK_ORIGIN, "origin", "upstream"}
UpstreamUrl == "U"
TrackingRefs == {r \o "/" \o b : r \in RemoteNames, b \in Branches}
RefNames == Branches \cup TrackingRefs

\* ------------------------------------------------------ pure helpers ----
\* util::hash::hash_bytes: SHA-256 in hex.  The digest itself is not
\* computed; it is an injective naming of the byte strings of the model.
hash_bytes(bytes) ==
    CASE bytes = "s1" -> "h1"
      [] bytes = "s2" -> "h2"
      [] OTHER -> "h0"

\* util::normalize_path on a path git printed: already canonical, so only a
\* trailing separator is dropped.
normalize_path(path) ==
    CASE path = "s1/" -> "s1"
      [] path = "s2/" -> "s2"
      [] OTHER -> path

\* One lock file for the whole work root.
pidlock_path_Shared(source_path_hash) ==
    WorkRoot \o "/" \o ".locks/" \o "fersk" \o ".pid"

\* main.rs:100  work_root.join(format!(".locks/{source_path_hash}.pid"))
pidlock_path(source_path_hash) ==
    WorkRoot \o "/" \o ".locks/" \o source_path_hash \o ".pid"

\* One workspace directory for the whole work root.
work_path_Flat(source_path_hash) == WorkRoot \o "/" \o "workspace"

\* main.rs:116  work_root.join(source_path_hash)
work_path(source_path_hash) == WorkRoot \o "/" \o source_path_hash

WorkPathOf(root) == work_path(hash_bytes(root))
LockPathOf(root) == pidlock_path(hash_bytes(root))

WorkPaths == {WorkPathOf(s) : s \in Sources}
LockPaths == {LockPathOf(s) : s \in Sources}
RepoPaths == Sources \cup WorkPaths

\* ---------------------------------------------------- the git engine ----
\* A directory as git sees it.
\*   exists    the directory exists
\*   isrepo    it holds a git repository
\*   remotes   remote name -> URL (None: not configured)
\*   refs      ref name -> commit (None: no such ref); "main" is the local
\*             branch, "<remote>/main" the remote-tracking ref
\*   head      the branch HEAD is on, or the commit it is detached at
\*   objs      the commits present in the object store
\*   modified  tracked files differ from HEAD
\*   untracked untracked or ignored files exist
NoDir ==
    [exists |-> FALSE, isrepo |-> FALSE,
     remotes |-> [r \in RemoteNames |-> None],
     refs |-> [n \in RefNames |-> None],
     head |-> None, objs |-> {}, modified |-> FALSE, untracked |-> FALSE]

EmptyDir == [NoDir EXCEPT !.exists = TRUE]

\* The commit HEAD resolves to.
HeadCommit(d) == IF d.head \in Branches THEN d.refs[d.head] ELSE d.head

\* `git rev-parse --show-toplevel` run in `path`: the top-level directory of
\* the repository holding it, None outside a repository.
GitShowToplevel(repo, path) ==
    CASE path \in {"s1", "s1/sub"} -> IF repo["s1"].isrepo THEN "s1" ELSE None
      [] path = "s2" -> IF repo["s2"].isrepo THEN "s2" ELSE None
      [] path \in WorkPaths -> IF repo[path].isrepo THEN path ELSE None
      [] OTHER -> None

\* `git rev-parse --abbrev-ref HEAD`: the branch name, or the word HEAD when
\* detached.
GitAbbrevRefHead(d) == IF d.head \in Branches THEN d.head ELSE "HEAD"

\* git.rs:116-137  Git::get_current_head, on the output of the two rev-parse
\* calls.
get_current_head(d) ==
    LET out == GitAbbrevRefHead(d) IN
    IF out # "HEAD" THEN [tag |-> "Branch", v |-> out]
    ELSE [tag |-> "Commit", v |-> HeadCommit(d)]

\* A URL names a repository only if it is the path of one.
Reachable(repo, url) == url \in RepoPaths /\ repo[url].isrepo

\* `git clone <source> <destination>`: the new state of the destination.
\* git names the remote "origin" unless told otherwise, checks out the
\* source's HEAD and creates the local branch HEAD was on.
ClonedDir(src, source) ==
    [exists |-> TRUE, isrepo |-> TRUE,
     remotes |-> [r \in RemoteNames |-> IF r = "origin" THEN source ELSE None],
     refs |-> [n \in RefNames |->
                 IF n \in Branches
                 THEN (IF src.head = n THEN src.refs[n] ELSE None)
                 ELSE IF \E b \in Branches : n = "origin/" \o b
                 THEN src.refs[CHOOSE b \in Branches : n = "origin/" \o b]
                 ELSE None],
     head |-> src.head, objs |-> src.objs,
     modified |-> FALSE, untracked |-> FALSE]

\* git.rs:81-89  Git::clone(source, destination): `git clone` with these two
\* arguments and nothing else.  Fails if the source is no repository or the
\* destination is neither absent nor an empty directory.
GitClone(repo, source, destination) ==
    LET dst == repo[destination] IN
    IF Reachable(repo, source) /\ ~dst.isrepo /\ ~dst.modified /\ ~dst.untracked
    THEN [ok |-> TRUE,
          repo |-> [repo EXCEPT ![destination] = ClonedDir(repo[source], source)]]
    ELSE [ok |-> FALSE, repo |-> repo]

\* git.rs:92-101  Git::fetch(path, remote_name): `git fetch <remote>` run in
\* `path`.  Updates the remote-tracking refs of that remote and brings its
\* commits; fails outside a repository, for an unknown remote, or if the
\* remote's URL names no repository.
GitFetch(repo, path, remote_name) ==
    LET d == repo[path] IN
    IF d.isrepo /\ remote_name \in RemoteNames
       /\ d.remotes[remote_name] # None /\ Reachable(repo, d.remotes[remote_name])
    THEN LET src == repo[d.remotes[remote_name]] IN
         [ok |-> TRUE,
          repo |-> [repo EXCEPT ![path] =
                      [d EXCEPT !.refs = [n \in RefNames |->
                                   IF \E b \in Branches : n = remote_name \o "/" \o b
                                   THEN src.refs[CHOOSE b \in Branches :
                                                   n = remote_name \o "/" \o b]
                                   ELSE d.refs[n]],
                                !.objs = d.objs \cup src.objs]]]
    ELSE [ok |-> FALSE, repo |-> repo]

\* Git::force_remote_url(path, remote_name, url): the named remote exists
\* afterwards and points at url, whatever it was before.  Fails outside a
\* repository.
GitForceRemoteUrl(repo, path, remote_name, url) ==
    LET d == repo[path] IN
    IF d.isrepo /\ remote_name \in RemoteNames
    THEN [ok |-> TRUE,
          repo |-> [repo EXCEPT ![path] =
                      [d EXCEPT !.remotes = [d.remotes EXCEPT ![remote_name] = url]]]]
    ELSE [ok |-> FALSE, repo |-> repo]

\* Git::get_remote_url(path, remote_name): the URL configured for the remote;
\* fails if the remote is undefined.
GitGetRemoteUrl(repo, path, remote_name) ==
    LET d == repo[path] IN
    IF d.isrepo /\ remote_name \in RemoteNames /\ d.remotes[remote_name] # None
    THEN [ok |-> TRUE, url |-> d.remotes[remote_name]]
    ELSE [ok |-> FALSE, url |-> None]

\* git.rs:51-55  `git reset --hard` run in `path`: tracked files match HEAD
\* again.
GitResetHard(repo, path) ==
    LET d == repo[path] IN
    IF d.isrepo
    THEN [ok |-> TRUE, repo |-> [repo EXCEPT ![path] = [d EXCEPT !.modified = FALSE]]]
    ELSE [ok |-> FALSE, repo |-> repo]

\* git.rs:57-61  `git clean -fdx` run in `path`: untracked and ignored files
\* are removed.
GitCleanFdx(repo, path) ==
    LET d == repo[path] IN
    IF d.isrepo
    THEN [ok |-> TRUE, repo |-> [repo EXCEPT ![path] = [d EXCEPT !.untracked = FALSE]]]
    ELSE [ok |-> FALSE, repo |-> repo]

\* git.rs:67-78  Git::checkout(path, rev): `git checkout <rev.as_ref()>` run
\* in `path`.  A local branch name puts HEAD on the branch; a remote-tracking
\* ref or a commit id detaches HEAD at that commit; anything else fails.
GitCheckout(repo, path, ref) ==
    LET d == repo[path] IN
    IF ~d.isrepo THEN [ok |-> FALSE, repo |-> repo]
    ELSE IF ref \in Branches /\ d.refs[ref] # None
    THEN [ok |-> TRUE, repo |-> [repo EXCEPT ![path] = [d EXCEPT !.head = ref]]]
    ELSE IF ref \in TrackingRefs /\ d.refs[ref] # None
    THEN [ok |-> TRUE, repo |-> [repo EXCEPT ![path] = [d EXCEPT !.head = d.refs[ref]]]]
    ELSE IF ref \in d.objs
    THEN [ok |-> TRUE, repo |-> [repo EXCEPT ![path] = [d EXCEPT !.head = ref]]]
    ELSE [ok |-> FALSE, repo |-> repo]

\* std::fs::create_dir_all(path): the directory exists afterwards.
CreateDirAll(repo, path) ==
    [repo EXCEPT ![path] = IF @.exists THEN @ ELSE EmptyDir]

\* GitRev's AsRef<str> (git.rs:28-35): the payload, whichever the variant.
as_ref(rev) == rev.v

\* main.rs:124-128 with the commit arm qualified too.
Qualify_Always(rev) == [tag |-> rev.tag, v |-> FERSK_ORIGIN \o "/" \o rev.v]

\* main.rs:124-128: a branch is qualified with the reserved remote, a commit
\* is passed through.
Qualify(rev) ==
    IF rev.tag = "Branch"
    THEN [tag |-> "Branch", v |-> FERSK_ORIGIN \o "/" \o rev.v]
    ELSE rev

\* ------------------------------------------------------------ state ----
VARIABLES
    inv,       \* per process slot: the invocation running in it
    repo,      \* directory path -> what git sees there
    lockfile,  \* lock-file path -> pid written in it (NoPid: no file)
    locksdir,  \* <work-root>/.locks exists
    last,      \* work path -> what the latest holder of its lock left on
               \* completing synchronisation (history)
    hist,      \* whether history is recorded: the fields headq, via, spur,
               \* creq, seen and prev of inv, and last.  Never changes.
    mode,      \* what else is observed: "plain" nothing, "run" the engine
               \* calls and the standard output of each invocation (run),
               \* "two" invocations on two repositories.  Never changes.
    run        \* per process slot: --json-out, the operations the invocation
               \* has called so far and what reached its standard output

vars == <<inv, repo, lockfile, locksdir, last, hist, mode, run>>

NoRev == [tag |-> None, v |-> None]
NoSeen == [b \in Branches |-> None]

\* What a completed synchronisation is remembered by.
NoSnap ==
    [set |-> FALSE, rev |-> NoRev, creq |-> None, seen |-> NoSeen, head |-> None,
     remotes |-> [r \in RemoteNames |-> None], pristine |-> FALSE]

\* A slot with no invocation.  pc is the position in main; the other fields
\* are main's locals:
\*   root     repository_root_path, normalised
\*   branch, commit   --branch / --commit as read at main.rs:107-109
\*   rev      the effective revision (before qualification)
\*   headq    get_current_head was called
\*   via      which arm of `if work_path.exists()` was taken
\*   copy, url  --copy-remote and the URL read for it
\*   lock     the PidLock guard `_pidlock` is alive
\*   err      the stage whose error main is returning
\*   spur     that stage failed although its preconditions held (the engine
\*            could not be launched, the disk was full, ...)
\* and, as history, creq (the --copy-remote given), seen (the source's
\* branches as the run's clone or fetch saw them) and prev (what the previous
\* holder of the lock left).
\* Command-line values are drawn where main first reads them.
IdleInv ==
    [pc |-> "idle", root |-> None, branch |-> None,
     commit |-> None, rev |-> NoRev, headq |-> FALSE, via |-> None,
     copy |-> None, url |-> None, lock |-> FALSE, err |-> None,
     spur |-> FALSE, creq |-> None, seen |-> NoSeen, prev |-> NoSnap]

\* Positions between lock acquisition and the end of `_pidlock`'s scope.
LockScope ==
    {"rev", "exists", "force_remote", "fetch", "mkdir", "clone", "copy",
     "copy_set", "reset", "clean", "checkout", "exec", "json", "unwind"}

\* What is observed of one invocation (mode "run"):
\*   json   --json-out, as read at main.rs:90
\*   ops    the calls made so far, in order: the operation, the argument that
\*          tells two calls of it apart (a remote or ref name), whether it
\*          succeeded
\*   out    the kinds of text that reached standard output: "progress" (the
\*          println! lines), "git" (output of git), "cmd" (output of the user
\*          command)
\*   njson  how many times the JSON record was written to standard output
NoRun == [json |-> FALSE, ops |-> <<>>, out |-> {}, njson |-> 0]

\* Positions at which the process exists.
LivePCs == {"root", "lockdir", "lock"} \cup LockScope

\* The process has ended: Ok, Err before the lock was held, Err after it was
\* released.
EndedPCs == {"done", "failed", "aborted"}

Alive(pid) == pid \in Procs /\ inv[pid].pc \in LivePCs

\* What the command line may name.
InputPaths == {"s1", "s1/sub", "tmp"}
CopyNames == {"upstream", "origin"}
\* With the second repository among them.
InputPathsTwo == InputPaths \cup {"s2"}

SourceDir(h) ==
    [exists |-> TRUE, isrepo |-> TRUE,
     remotes |-> [r \in RemoteNames |-> IF r = "upstream" THEN UpstreamUrl ELSE None],
     refs |-> [n \in RefNames |-> IF n = "main" THEN "X" ELSE None],
     head |-> h, objs |-> {"X"}, modified |-> TRUE, untracked |-> TRUE]

\* Before any invocation: the source repositories hold commit X on main, with
\* uncommitted work in their trees; HEAD of s1 is on main or detached at X.
\* The work root is empty.
InitDisk ==
    /\ \E h \in IF mode = "two" THEN {"main"} ELSE {"main", "X"} :
         repo = [d \in RepoPaths |->
                   IF d = "s1" THEN SourceDir(h)
                   ELSE IF d \in Sources THEN SourceDir("main")
                   ELSE NoDir]
    /\ lockfile = [l \in LockPaths |-> NoPid]
    /\ locksdir = FALSE
    /\ last = [w \in WorkPaths |-> NoSnap]
    /\ run = [p \in Procs |-> NoRun]

InitWorld ==
    /\ inv = [p \in Procs |-> IdleInv]
    /\ InitDisk

Init == mode = "plain" /\ hist = FALSE /\ InitWorld
InitHist == mode = "plain" /\ hist = TRUE /\ InitWorld

\* Two processes that run invocations on the repositories s1 and s2; the
\* other pids are of processes that are gone.
InitTwo ==
    /\ mode = "two"
    /\ hist = FALSE
    /\ \E a, b \in Procs :
         /\ a # b
         /\ inv = [p \in Procs |-> IF p \in {a, b} THEN IdleInv
                                   ELSE [IdleInv EXCEPT !.pc = "killed"]]
    /\ InitDisk

\* One invocation at a time, each observed in full: the other pids are of
\* processes that are gone.
InitRun ==
    /\ mode = "run"
    /\ hist = FALSE
    /\ \E only \in Procs :
         inv = [p \in Procs |-> IF p = only THEN IdleInv
                                ELSE [IdleInv EXCEPT !.pc = "killed"]]
    /\ InitDisk

\* ------------------------------------------------------- the PID lock ----
\* PidLock::acquire(path) by process pid: one atomic create-or-fail on the
\* lock file.  A file naming a process that is no longer alive counts as
\* absent.
PidLockAcquire_NoReclaim(lf, path, pid) ==
    IF lf[path] = NoPid
    THEN [ok |-> TRUE, lockfile |-> [lf EXCEPT ![path] = pid]]
    ELSE [ok |-> FALSE, lockfile |-> lf]

PidLockAcquire(lf, path, pid) ==
    IF lf[path] = NoPid \/ ~Alive(lf[path])
    THEN [ok |-> TRUE, lockfile |-> [lf EXCEPT ![path] = pid]]
    ELSE [ok |-> FALSE, lockfile |-> lf]

\* Drop for PidLock: the lock file is removed.
PidLockRelease(lf, path) == [lf EXCEPT ![path] = NoPid]

\* ------------------------------------------------------------ actions ----
\* The values --branch, --commit and --copy-remote may have.  With two
\* repositories in play every invocation is run as
\* `fersk run --copy-remote upstream -- <command>`.
BranchFlags == IF mode = "two" THEN {None} ELSE Branches \cup {None}
CommitFlags == IF mode = "two" THEN {None} ELSE Commits \cup {None}
CopyFlags == IF mode = "two" THEN {"upstream"} ELSE CopyNames \cup {None}
\* Whether the user command leaves debris in the workspace; with two
\* repositories in play it always does.
DebrisChoice == IF mode = "two" THEN {TRUE} ELSE BOOLEAN

\* git.rs:140-157  Git::exec: git inherits standard output unless the Git
\* value is silent, and main.rs:90 makes it silent exactly for --json-out.
GitStdout_Inherit(p) == {"git"}

GitStdout(p) == IF run[p].json THEN {} ELSE {"git"}

\* Invocation p has called operation op with argument arg, it has succeeded
\* or not, and text of the kinds o has reached standard output.
Ran(p, op, arg, ok, o) ==
    run' = IF mode = "run"
           THEN [run EXCEPT ![p] =
                   [@ EXCEPT !.ops = Append(@, [op |-> op, arg |-> arg, ok |-> ok]),
                             !.out = @ \cup o]]
           ELSE run

\* `?` on an Err: main returns.  With `_pidlock` alive its Drop still has to
\* run (pc "unwind"); before that the process is gone at once.  Which stage
\* the error is from is kept only where history or the run is observed.
Fail(p, stage, spurious) ==
    inv' = [inv EXCEPT ![p] =
              IF inv[p].lock
              THEN [IdleInv EXCEPT !.pc = "unwind", !.lock = TRUE,
                                   !.root = inv[p].root,
                                   !.err = IF hist \/ mode = "run" THEN stage ELSE "error",
                                   !.spur = hist /\ spurious]
              ELSE [IdleInv EXCEPT !.pc = "failed"]]

\* The argument check of main.rs:80-82 moved below create_parent_dir
\* (main.rs:101): the root is resolved and the lock directory made first.
Start_CheckAfterLockDir(p) ==
    /\ inv[p].pc \in {"idle"} \cup EndedPCs
    /\ \E argsEmpty \in BOOLEAN :
         IF argsEmpty
         THEN /\ inv' = [inv EXCEPT ![p] = [IdleInv EXCEPT !.pc = "failed"]]
              /\ locksdir' = TRUE
              /\ run' = IF mode = "run"
                        THEN [run EXCEPT ![p] =
                                [NoRun EXCEPT !.ops = <<[op |-> "resolve-root",
                                                         arg |-> None, ok |-> TRUE]>>]]
                        ELSE run
         ELSE /\ inv' = [inv EXCEPT ![p] = [IdleInv EXCEPT !.pc = "root"]]
              /\ run' = IF mode = "run" THEN [run EXCEPT ![p] = NoRun] ELSE run
              /\ UNCHANGED locksdir
    /\ UNCHANGED <<repo, lockfile, last, hist, mode>>

\* main.rs:72-82  a `run` invocation starts, in a free slot: the argument
\* check.
Start(p) ==
    /\ inv[p].pc \in {"idle"} \cup EndedPCs
    /\ \E argsEmpty \in BOOLEAN :
         IF argsEmpty
         THEN inv' = [inv EXCEPT ![p] = [IdleInv EXCEPT !.pc = "failed"]]
         ELSE inv' = [inv EXCEPT ![p] = [IdleInv EXCEPT !.pc = "root"]]
    /\ run' = IF mode = "run" THEN [run EXCEPT ![p] = NoRun] ELSE run
    /\ UNCHANGED <<repo, lockfile, locksdir, last, hist, mode>>

\* main.rs:84-98  the path, the Git value (silent for --json-out),
\* get_repository_root, normalize_path (the hash is a function of root).
ResolveRoot(p) ==
    /\ inv[p].pc = "root"
    /\ \E path \in IF mode = "two" THEN InputPathsTwo ELSE InputPaths, ok \in BOOLEAN,
          json_out \in IF mode = "run" THEN BOOLEAN ELSE {FALSE} :
         LET top == GitShowToplevel(repo, path) IN
         /\ IF ok /\ top # None
            THEN inv' = [inv EXCEPT ![p] = [@ EXCEPT !.pc = "lockdir",
                                                     !.root = normalize_path(top)]]
            ELSE Fail(p, "root", ~ok)
         /\ run' = IF mode = "run"
                   THEN [run EXCEPT ![p] =
                           [@ EXCEPT !.json = json_out,
                                     !.ops = Append(@, [op |-> "resolve-root", arg |-> None,
                                                        ok |-> ok /\ top # None])]]
                   ELSE run
    /\ UNCHANGED <<repo, lockfile, locksdir, last, hist, mode>>

\* main.rs:100-101  create_parent_dir(&pidlock_path)
CreateLockDir(p) ==
    /\ inv[p].pc = "lockdir"
    /\ \E ok \in BOOLEAN :
         IF ok
         THEN /\ locksdir' = TRUE
              /\ inv' = [inv EXCEPT ![p].pc = "lock"]
         ELSE /\ Fail(p, "lockdir", TRUE)
              /\ UNCHANGED locksdir
    /\ UNCHANGED run
    /\ UNCHANGED <<repo, lockfile, last, hist, mode>>

\* The `?` of main.rs:104 dropped: the run goes on whatever acquire said.
AcquireLock_Unchecked(p) ==
    /\ inv[p].pc = "lock"
    /\ LET r == PidLockAcquire(lockfile, LockPathOf(inv[p].root), p) IN
       /\ lockfile' = r.lockfile
       /\ inv' = [inv EXCEPT ![p] = [@ EXCEPT !.pc = "rev", !.lock = r.ok]]
       /\ Ran(p, "acquire", None, r.ok, {})
    /\ UNCHANGED <<repo, locksdir, last, hist, mode>>

\* `let _ = PidLock::acquire(..)?` for main.rs:102: the guard is dropped at
\* the end of the statement, and the run goes on without it.
AcquireLock_Unbound(p) ==
    /\ inv[p].pc = "lock"
    /\ LET r == PidLockAcquire(lockfile, LockPathOf(inv[p].root), p) IN
       /\ IF r.ok
          THEN inv' = [inv EXCEPT ![p] = [@ EXCEPT !.pc = "rev", !.lock = FALSE]]
          ELSE Fail(p, "lock", FALSE)
       /\ Ran(p, "acquire", None, r.ok, {})
    /\ UNCHANGED <<repo, lockfile, locksdir, last, hist, mode>>

\* main.rs:102-104 moved below create_dir_all(&work_path): the workspace
\* directory is made before the lock is tried.
AcquireLock_AfterMkdir(p) ==
    /\ inv[p].pc = "lock"
    /\ LET r == PidLockAcquire(lockfile, LockPathOf(inv[p].root), p)
           wp == WorkPathOf(inv[p].root)
       IN /\ repo' = CreateDirAll(repo, wp)
          /\ IF r.ok
             THEN /\ lockfile' = r.lockfile
                  /\ inv' = [inv EXCEPT ![p] =
                               [@ EXCEPT !.pc = "rev", !.lock = TRUE,
                                         !.prev = IF hist THEN last[wp] ELSE NoSnap]]
                  /\ last' = [last EXCEPT ![wp] = NoSnap]
             ELSE /\ Fail(p, "lock", FALSE)
                  /\ UNCHANGED <<lockfile, last>>
          /\ Ran(p, "acquire", None, r.ok, {})
    /\ UNCHANGED <<locksdir, hist, mode>>

\* main.rs:102-104  let _pidlock = PidLock::acquire(pidlock_path)...?
AcquireLock(p) ==
    /\ inv[p].pc = "lock"
    /\ LET r == PidLockAcquire(lockfile, LockPathOf(inv[p].root), p)
           wp == WorkPathOf(inv[p].root)
       IN /\ IF r.ok
             THEN /\ lockfile' = r.lockfile
                  /\ inv' = [inv EXCEPT ![p] =
                               [@ EXCEPT !.pc = "rev", !.lock = TRUE,
                                         !.prev = IF hist THEN last[wp] ELSE NoSnap]]
                  /\ last' = [last EXCEPT ![wp] = NoSnap]
             ELSE /\ Fail(p, "lock", FALSE)
                  /\ UNCHANGED <<lockfile, last>>
          /\ Ran(p, "acquire", None, r.ok, {})
    /\ UNCHANGED <<repo, locksdir, hist, mode>>

\* main.rs:107-114 with the commit flag tested first.
ResolveRev_CommitFirst(p) ==
    /\ inv[p].pc = "rev"
    /\ \E branch \in BranchFlags, commit \in CommitFlags, ok \in BOOLEAN :
         /\ IF commit # None
            THEN inv' = [inv EXCEPT ![p] = [@ EXCEPT !.pc = "exists", !.branch = branch,
                            !.commit = commit,
                            !.rev = [tag |-> "Commit", v |-> commit]]]
            ELSE IF branch # None
            THEN inv' = [inv EXCEPT ![p] = [@ EXCEPT !.pc = "exists", !.branch = branch,
                            !.commit = commit,
                            !.rev = [tag |-> "Branch", v |-> branch]]]
            ELSE IF ok
            THEN inv' = [inv EXCEPT ![p] = [@ EXCEPT !.pc = "exists", !.branch = branch,
                            !.commit = commit, !.headq = TRUE,
                            !.rev = get_current_head(repo[inv[p].root])]]
            ELSE Fail(p, "rev", TRUE)
         /\ IF branch = None /\ commit = None
            THEN Ran(p, "resolve-head", None, ok, {})
            ELSE UNCHANGED run
    /\ UNCHANGED <<repo, lockfile, locksdir, last, hist, mode>>

\* main.rs:107-114  the effective revision: --branch, else --commit, else
\* the source's current head.
ResolveRev(p) ==
    /\ inv[p].pc = "rev"
    /\ \E branch \in BranchFlags, commit \in CommitFlags, ok \in BOOLEAN :
         /\ IF branch # None
            THEN inv' = [inv EXCEPT ![p] = [@ EXCEPT !.pc = "exists", !.branch = branch,
                            !.commit = commit,
                            !.rev = [tag |-> "Branch", v |-> branch]]]
            ELSE IF commit # None
            THEN inv' = [inv EXCEPT ![p] = [@ EXCEPT !.pc = "exists", !.branch = branch,
                            !.commit = commit,
                            !.rev = [tag |-> "Commit", v |-> commit]]]
            ELSE IF ok
            THEN inv' = [inv EXCEPT ![p] = [@ EXCEPT !.pc = "exists", !.branch = branch,
                            !.commit = commit, !.headq = TRUE,
                            !.rev = get_current_head(repo[inv[p].root])]]
            ELSE Fail(p, "rev", TRUE)
         /\ IF branch = None /\ commit = None
            THEN Ran(p, "resolve-head", None, ok, {})
            ELSE UNCHANGED run
    /\ UNCHANGED <<repo, lockfile, locksdir, last, hist, mode>>

\* main.rs:130 testing for a repository instead of a directory.
ExistsTest_IsRepo(p) ==
    /\ inv[p].pc = "exists"
    /\ inv' = [inv EXCEPT ![p] =
                 [@ EXCEPT !.branch = None, !.commit = None,
                           !.headq = hist /\ @,
                           !.pc = IF repo[WorkPathOf(inv[p].root)].isrepo
                                  THEN "force_remote" ELSE "mkdir",
                           !.via = IF ~hist THEN None
                                   ELSE IF repo[WorkPathOf(inv[p].root)].isrepo
                                   THEN "fetch" ELSE "clone"]]
    /\ run' = IF mode = "run" /\ ~run[p].json
              THEN [run EXCEPT ![p] = [@ EXCEPT !.out = @ \cup {"progress"}]]
              ELSE run
    /\ UNCHANGED <<repo, lockfile, locksdir, last, hist, mode>>

\* main.rs:116-130  work_path, the progress lines unless --json-out, and
\* `if work_path.exists()`
ExistsTest(p) ==
    /\ inv[p].pc = "exists"
    /\ inv' = [inv EXCEPT ![p] =
                 [@ EXCEPT !.branch = None, !.commit = None,
                           !.headq = hist /\ @,
                           !.pc = IF repo[WorkPathOf(inv[p].root)].exists
                                  THEN "force_remote" ELSE "mkdir",
                           !.via = IF ~hist THEN None
                                   ELSE IF repo[WorkPathOf(inv[p].root)].exists
                                   THEN "fetch" ELSE "clone"]]
    /\ run' = IF mode = "run" /\ ~run[p].json
              THEN [run EXCEPT ![p] = [@ EXCEPT !.out = @ \cup {"progress"}]]
              ELSE run
    /\ UNCHANGED <<repo, lockfile, locksdir, last, hist, mode>>

\* main.rs:131-132  git.force_remote_url(&work_path, FERSK_ORIGIN, &repository_root_path)
ForceRemote(p) ==
    /\ inv[p].pc = "force_remote"
    /\ \E ok \in BOOLEAN :
         LET r == GitForceRemoteUrl(repo, WorkPathOf(inv[p].root), FERSK_ORIGIN, inv[p].root) IN
         IF ok /\ r.ok
         THEN /\ repo' = r.repo
              /\ Ran(p, "force-set-remote", FERSK_ORIGIN, TRUE, GitStdout(p))
              /\ inv' = [inv EXCEPT ![p].pc = "fetch"]
         ELSE /\ Fail(p, "force_remote", ~ok)
              /\ Ran(p, "force-set-remote", FERSK_ORIGIN, FALSE, GitStdout(p))
              /\ UNCHANGED repo
    /\ UNCHANGED <<lockfile, locksdir, last, hist, mode>>

\* The source's branches as a clone or fetch of p sees them.
Seen(p) ==
    IF hist THEN [b \in Branches |-> repo[inv[p].root].refs[b]] ELSE NoSeen

\* main.rs:134-135 with the fetch's error ignored: the run goes on.
Fetch_IgnoreError(p) ==
    /\ inv[p].pc = "fetch"
    /\ \E ok \in BOOLEAN :
         LET r == GitFetch(repo, WorkPathOf(inv[p].root), FERSK_ORIGIN) IN
         /\ repo' = IF ok THEN r.repo ELSE repo
         /\ inv' = [inv EXCEPT ![p] = [@ EXCEPT !.pc = "copy", !.seen = Seen(p)]]
         /\ Ran(p, "fetch", FERSK_ORIGIN, ok /\ r.ok, GitStdout(p))
    /\ UNCHANGED <<lockfile, locksdir, last, hist, mode>>

\* main.rs:134-135  git.fetch(&work_path, FERSK_ORIGIN)
Fetch(p) ==
    /\ inv[p].pc = "fetch"
    /\ \E ok \in BOOLEAN :
         LET r == GitFetch(repo, WorkPathOf(inv[p].root), FERSK_ORIGIN) IN
         IF ok /\ r.ok
         THEN /\ repo' = r.repo
              /\ Ran(p, "fetch", FERSK_ORIGIN, TRUE, GitStdout(p))
              /\ inv' = [inv EXCEPT ![p] = [@ EXCEPT !.pc = "copy", !.seen = Seen(p)]]
         ELSE /\ Fail(p, "fetch", ~ok)
              /\ Ran(p, "fetch", FERSK_ORIGIN, FALSE, GitStdout(p))
              /\ UNCHANGED repo
    /\ UNCHANGED <<lockfile, locksdir, last, hist, mode>>

\* main.rs:137-138  std::fs::create_dir_all(&work_path)
Mkdir(p) ==
    /\ inv[p].pc = "mkdir"
    /\ \E ok \in BOOLEAN :
         IF ok
         THEN /\ repo' = CreateDirAll(repo, WorkPathOf(inv[p].root))
              /\ inv' = [inv EXCEPT ![p].pc = "clone"]
              /\ Ran(p, "mkdir", None, TRUE, {})
         ELSE /\ Fail(p, "mkdir", TRUE)
              /\ UNCHANGED repo
              /\ Ran(p, "mkdir", None, FALSE, {})
    /\ UNCHANGED <<lockfile, locksdir, last, hist, mode>>

\* main.rs:140-141  git.clone(&repository_root_path, &work_path, Some(FERSK_ORIGIN));
\* Git::clone takes the source and the destination only.
Clone(p) ==
    /\ inv[p].pc = "clone"
    /\ \E ok \in BOOLEAN :
         LET r == GitClone(repo, inv[p].root, WorkPathOf(inv[p].root)) IN
         IF ok /\ r.ok
         THEN /\ repo' = r.repo
              /\ Ran(p, "clone", None, TRUE, GitStdout(p))
              /\ inv' = [inv EXCEPT ![p] = [@ EXCEPT !.pc = "copy", !.seen = Seen(p)]]
         ELSE /\ Fail(p, "clone", ~ok)
              /\ Ran(p, "clone", None, FALSE, GitStdout(p))
              /\ UNCHANGED repo
    /\ UNCHANGED <<lockfile, locksdir, last, hist, mode>>

\* main.rs:144-147  if let Some(copy_remote): git.get_remote_url(&repository_root_path, ..)
CopyGet(p) ==
    /\ inv[p].pc = "copy"
    /\ \E copy \in CopyFlags, ok \in BOOLEAN :
         LET r == GitGetRemoteUrl(repo, inv[p].root, copy) IN
         IF copy = None
         THEN /\ inv' = [inv EXCEPT ![p].pc = "reset"]
              /\ UNCHANGED run
         ELSE IF ok /\ r.ok
         THEN /\ inv' = [inv EXCEPT ![p] = [@ EXCEPT !.pc = "copy_set", !.copy = copy,
                                                     !.url = r.url,
                                                     !.creq = IF hist THEN copy ELSE None]]
              /\ Ran(p, "get-remote-url", copy, TRUE, {})
         ELSE /\ Fail(p, "copy_get", ~ok)
              /\ Ran(p, "get-remote-url", copy, FALSE, {})
    /\ UNCHANGED <<repo, lockfile, locksdir, last, hist, mode>>

\* main.rs:149-150  git.force_remote_url(&work_path, &copy_remote, &remote_url)
CopySet(p) ==
    /\ inv[p].pc = "copy_set"
    /\ \E ok \in BOOLEAN :
         LET r == GitForceRemoteUrl(repo, WorkPathOf(inv[p].root), inv[p].copy, inv[p].url) IN
         IF ok /\ r.ok
         THEN /\ repo' = r.repo
              /\ Ran(p, "force-set-remote", inv[p].copy, TRUE, GitStdout(p))
              /\ inv' = [inv EXCEPT ![p] = [@ EXCEPT !.pc = "reset", !.copy = None,
                                                     !.url = None]]
         ELSE /\ Fail(p, "copy_set", ~ok)
              /\ Ran(p, "force-set-remote", inv[p].copy, FALSE, GitStdout(p))
              /\ UNCHANGED repo
    /\ UNCHANGED <<lockfile, locksdir, last, hist, mode>>

\* git.rs:51-55 with the `?` after the reset dropped: the clean runs anyway.
Reset_IgnoreError(p) ==
    /\ inv[p].pc = "reset"
    /\ \E ok \in BOOLEAN :
         LET r == GitResetHard(repo, WorkPathOf(inv[p].root)) IN
         /\ repo' = IF ok THEN r.repo ELSE repo
         /\ inv' = [inv EXCEPT ![p].pc = "clean"]
         /\ Ran(p, "reset", None, ok /\ r.ok, GitStdout(p))
    /\ UNCHANGED <<lockfile, locksdir, last, hist, mode>>

\* main.rs:154 with the reset run in the source repository.
Reset_InSource(p) ==
    /\ inv[p].pc = "reset"
    /\ \E ok \in BOOLEAN :
         LET r == GitResetHard(repo, inv[p].root) IN
         IF ok /\ r.ok
         THEN /\ repo' = r.repo
              /\ Ran(p, "reset", None, TRUE, GitStdout(p))
              /\ inv' = [inv EXCEPT ![p].pc = "clean"]
         ELSE /\ Fail(p, "reset", ~ok)
              /\ Ran(p, "reset", None, FALSE, GitStdout(p))
              /\ UNCHANGED repo
    /\ UNCHANGED <<lockfile, locksdir, last, hist, mode>>

\* main.rs:154, git.rs:51-55  cleanse: git reset --hard
Reset(p) ==
    /\ inv[p].pc = "reset"
    /\ \E ok \in BOOLEAN :
         LET r == GitResetHard(repo, WorkPathOf(inv[p].root)) IN
         IF ok /\ r.ok
         THEN /\ repo' = r.repo
              /\ Ran(p, "reset", None, TRUE, GitStdout(p))
              /\ inv' = [inv EXCEPT ![p].pc = "clean"]
         ELSE /\ Fail(p, "reset", ~ok)
              /\ Ran(p, "reset", None, FALSE, GitStdout(p))
              /\ UNCHANGED repo
    /\ UNCHANGED <<lockfile, locksdir, last, hist, mode>>

\* main.rs:154, git.rs:57-61  cleanse: git clean -fdx
Clean(p) ==
    /\ inv[p].pc = "clean"
    /\ \E ok \in BOOLEAN :
         LET r == GitCleanFdx(repo, WorkPathOf(inv[p].root)) IN
         IF ok /\ r.ok
         THEN /\ repo' = r.repo
              /\ Ran(p, "clean", None, TRUE, GitStdout(p))
              /\ inv' = [inv EXCEPT ![p].pc = "checkout"]
         ELSE /\ Fail(p, "clean", ~ok)
              /\ Ran(p, "clean", None, FALSE, GitStdout(p))
              /\ UNCHANGED repo
    /\ UNCHANGED <<lockfile, locksdir, last, hist, mode>>

\* The workspace as a completed synchronisation of p leaves it.
Snapshot(p, d) ==
    [set |-> TRUE, rev |-> inv[p].rev, creq |-> inv[p].creq, seen |-> inv[p].seen,
     head |-> HeadCommit(d),
     remotes |-> d.remotes, pristine |-> ~d.modified /\ ~d.untracked]

\* main.rs:124-128, 157-158  git.checkout(&work_path, &branch)
Checkout(p) ==
    /\ inv[p].pc = "checkout"
    /\ \E ok \in BOOLEAN :
         LET wp == WorkPathOf(inv[p].root)
             r == GitCheckout(repo, wp, as_ref(Qualify(inv[p].rev)))
         IN IF ok /\ r.ok
            THEN /\ repo' = r.repo
                 /\ Ran(p, "checkout", as_ref(Qualify(inv[p].rev)), TRUE, GitStdout(p))
                 /\ inv' = [inv EXCEPT ![p].pc = "exec"]
                 /\ last' = IF hist
                            THEN [last EXCEPT ![wp] = Snapshot(p, r.repo[wp])]
                            ELSE last
            ELSE /\ Fail(p, "checkout", ~ok)
                 /\ Ran(p, "checkout", as_ref(Qualify(inv[p].rev)), FALSE, GitStdout(p))
                 /\ UNCHANGED <<repo, last>>
    /\ UNCHANGED <<lockfile, locksdir, hist, mode>>

\* main.rs:161-170, command.rs:5-21  the user command, run in work_path with
\* standard output discarded for --json-out.  It leaves the tree clean or
\* leaves debris behind (modified tracked files and untracked files), and
\* succeeds or not; on success main goes on to `if json_out`.
Exec(p) ==
    /\ inv[p].pc = "exec"
    /\ \E okc \in BOOLEAN, dirty \in DebrisChoice,
          json_out \in IF mode = "run" THEN {run[p].json} ELSE BOOLEAN :
         /\ repo' = [repo EXCEPT ![WorkPathOf(inv[p].root)] =
                       [@ EXCEPT !.modified = dirty, !.untracked = dirty]]
         /\ IF okc
            THEN inv' = [inv EXCEPT ![p] =
                           [IdleInv EXCEPT !.pc = IF json_out THEN "json" ELSE "unwind",
                                           !.lock = TRUE, !.root = inv[p].root]]
            ELSE Fail(p, "command", FALSE)
         /\ Ran(p, "command", None, okc, IF json_out THEN {} ELSE {"cmd"})
    /\ UNCHANGED <<lockfile, locksdir, last, hist, mode>>

\* main.rs:170-179  the JSON record, written to standard output.
JsonOut(p) ==
    /\ inv[p].pc = "json"
    /\ \E ok \in BOOLEAN :
         IF ok
         THEN /\ inv' = [inv EXCEPT ![p].pc = "unwind"]
              /\ run' = IF mode = "run"
                        THEN [run EXCEPT ![p] = [@ EXCEPT !.njson = @ + 1]]
                        ELSE run
         ELSE /\ Fail(p, "json", TRUE)
              /\ UNCHANGED run
    /\ UNCHANGED <<repo, lockfile, locksdir, last, hist, mode>>

\* `_pidlock` released on the Ok path only.
Unwind_OkOnly(p) ==
    /\ inv[p].pc = "unwind"
    /\ lockfile' = IF inv[p].lock /\ inv[p].err = None
                   THEN PidLockRelease(lockfile, LockPathOf(inv[p].root))
                   ELSE lockfile
    /\ inv' = [inv EXCEPT ![p] =
                 [IdleInv EXCEPT !.pc = IF inv[p].err = None THEN "done" ELSE "aborted"]]
    /\ UNCHANGED <<repo, locksdir, last, hist, mode, run>>

\* main.rs:102-183  main returns, by Ok(()) or by `?`: `_pidlock` goes out of
\* scope and is dropped, and the process ends.
Unwind(p) ==
    /\ inv[p].pc = "unwind"
    /\ lockfile' = IF inv[p].lock
                   THEN PidLockRelease(lockfile, LockPathOf(inv[p].root))
                   ELSE lockfile
    /\ inv' = [inv EXCEPT ![p] =
                 [IdleInv EXCEPT !.pc = IF inv[p].err = None THEN "done" ELSE "aborted"]]
    /\ UNCHANGED <<repo, locksdir, last, hist, mode, run>>

\* The process is killed: nothing of main runs any more, no Drop either.
\* The slot's pid is not used again.
Kill(p) ==
    /\ inv[p].pc \in LivePCs
    /\ inv' = [inv EXCEPT ![p] = [IdleInv EXCEPT !.pc = "killed"]]
    /\ UNCHANGED <<repo, lockfile, locksdir, last, hist, mode, run>>

\* The developer commits on main in the source repository s1: X -> Y.
SourceCommit ==
    /\ repo["s1"].head = "main"
    /\ repo["s1"].refs["main"] = "X"
    /\ repo' = [repo EXCEPT !["s1"] =
                  [@ EXCEPT !.refs = [@ EXCEPT !["main"] = "Y"],
                            !.objs = @ \cup {"Y"}]]
    /\ UNCHANGED <<inv, lockfile, locksdir, last, hist, mode, run>>

\* One step of main in slot p.
Step(p) ==
    \/ Start(p)
    \/ ResolveRoot(p)
    \/ CreateLockDir(p)
    \/ AcquireLock(p)
    \/ ResolveRev(p)
    \/ ExistsTest(p)
    \/ ForceRemote(p)
    \/ Fetch(p)
    \/ Mkdir(p)
    \/ Clone(p)
    \/ CopyGet(p)
    \/ CopySet(p)
    \/ Reset(p)
    \/ Clean(p)
    \/ Checkout(p)
    \/ Exec(p)
    \/ JsonOut(p)
    \/ Unwind(p)

Next ==
    \/ \E p \in Procs : Step(p)
    \/ \E p \in Procs : Kill(p)
    \/ SourceCommit

\* Invocations on the repository s1 (and on a path outside any repository),
\* without and with the history.
Spec == Init /\ [][Next]_vars
SpecHist == InitHist /\ [][Next]_vars
SpecRun == InitRun /\ [][Next]_vars
SpecTwo == InitTwo /\ [][Next]_vars

\* ------------------------------------------------------- properties ----
WorkDir(p) == repo[WorkPathOf(inv[p].root)]

\* C1: invocations resolving to the same repository root are never both
\* between lock acquisition and the end of the lock's scope, and never both
\* believe they hold the lock.
C1_MutualExclusion ==
    \A p, q \in Procs :
        (p # q /\ (inv[p].pc \in LockScope \/ inv[p].lock)
               /\ (inv[q].pc \in LockScope \/ inv[q].lock))
        => inv[p].root # inv[q].root

\* One invocation runs the user command while another, on the same root, is
\* about to try the lock.
C1_Witness ==
    \E p, q \in Procs :
        /\ p # q
        /\ inv[p].pc = "exec"
        /\ inv[q].pc = "lock"
        /\ inv[p].root = inv[q].root

\* C2: from the position before the workspace-existence test up to and
\* including the user command and the return from main, the invocation holds
\* the lock: the guard is alive and the lock file names it.
C2_LockScope ==
    \A p \in Procs :
        inv[p].pc \in LockScope
        => inv[p].lock /\ lockfile[LockPathOf(inv[p].root)] = p

\* The user command has completed and main is returning, the lock still held.
C2_Witness ==
    \E p \in Procs :
        /\ inv[p].pc = "unwind"
        /\ inv[p].err = None
        /\ lockfile[LockPathOf(inv[p].root)] = p
        /\ WorkDir(p).untracked

\* C3: an acquisition attempt succeeds exactly if the lock file is absent or
\* names a process that no longer runs (a killed one included), and fails
\* with the contention error, leaving the file alone, if it names a running
\* process.
C3_Acquisition ==
    [][\A p \in Procs :
         (inv[p].pc = "lock" /\ inv'[p].pc \notin {"lock", "killed"})
         => LET l == LockPathOf(inv[p].root) IN
            IF lockfile[l] = NoPid \/ inv[lockfile[l]].pc \notin LivePCs
            THEN inv'[p].pc = "rev" /\ lockfile'[l] = p
            ELSE inv'[p].pc = "failed" /\ lockfile'[l] = lockfile[l]]_vars

\* An invocation is about to try a lock whose file names a killed one.
C3_Witness ==
    \E p, q \in Procs :
        /\ inv[p].pc = "lock"
        /\ lockfile[LockPathOf(inv[p].root)] = q
        /\ inv[q].pc = "killed"

\* C4: once an invocation has returned from main, by Ok or by an error at
\* any stage, no lock file names it.
C4_Released ==
    \A p \in Procs :
        inv[p].pc \in EndedPCs \cup {"idle"}
        => \A l \in LockPaths : lockfile[l] # p

\* An invocation has returned an error from inside the lock's scope, and a
\* later one holds the lock.
C4_Witness ==
    \E p, q \in Procs :
        /\ inv[p].pc = "aborted"
        /\ inv[q].pc \in LockScope
        /\ lockfile[LockPathOf(inv[q].root)] = q

\* C5: a step of an invocation changes no directory but that invocation's
\* workspace; in particular the source repository is left as it was.
C5_SourceReadOnly ==
    [][\A p \in Procs :
         inv'[p] # inv[p]
         => \A d \in RepoPaths :
              d # WorkPathOf(inv[p].root) => repo'[d] = repo[d]]_vars

\* A run with a copy-remote has come through its user command, and the
\* source still has its uncommitted work.
C5_Witness ==
    \E p \in Procs :
        /\ inv[p].pc = "unwind"
        /\ inv[p].err = None
        /\ WorkDir(p).remotes["upstream"] = UpstreamUrl
        /\ repo[inv[p].root].modified /\ repo[inv[p].root].untracked

\* C6: a run that finds the workspace directory present, in which no engine
\* or filesystem call fails without cause and whose revision and copy-remote
\* exist, completes synchronisation.
C6_RetryCompletes ==
    [][\A p \in Procs :
         (/\ inv[p].via = "fetch"
          /\ inv[p].pc \in LockScope \ {"exec", "unwind"}
          /\ inv'[p].pc = "unwind"
          /\ ~inv'[p].spur)
         => \/ inv'[p].err = "copy_get"
            \/ /\ inv'[p].err = "checkout"
               /\ inv[p].rev.tag = "Commit"
               /\ inv[p].rev.v \notin WorkDir(p).objs]_vars

\* C7: when synchronisation is complete the workspace's remote fersk-origin
\* points at the source root, and a branch revision is checked out at that
\* remote's tracking ref.
C7_TrackingRemote ==
    \A p \in Procs :
        inv[p].pc = "exec"
        => /\ WorkDir(p).remotes[FERSK_ORIGIN] = inv[p].root
           /\ inv[p].rev.tag = "Branch"
              => HeadCommit(WorkDir(p)) = WorkDir(p).refs[FERSK_ORIGIN \o "/" \o inv[p].rev.v]

\* C8: the effective revision is the branch flag if given, else the commit
\* flag if given, else the source's head (its branch, or the commit it is
\* detached at); the head is queried in the last case only.
C8_Precedence ==
    \A p \in Procs :
        inv[p].pc = "exists"
        => LET i == inv[p]
               src == repo[i.root]
           IN /\ i.branch # None
                 => i.rev = [tag |-> "Branch", v |-> i.branch] /\ ~i.headq
              /\ (i.branch = None /\ i.commit # None)
                 => i.rev = [tag |-> "Commit", v |-> i.commit] /\ ~i.headq
              /\ (i.branch = None /\ i.commit = None)
                 => /\ i.headq
                    /\ i.rev = IF src.head \in Branches
                               THEN [tag |-> "Branch", v |-> src.head]
                               ELSE [tag |-> "Commit", v |-> src.head]

\* Both flags were given and the revision has been resolved.
C8_Witness ==
    \E p \in Procs :
        /\ inv[p].pc = "exists"
        /\ inv[p].branch # None
        /\ inv[p].commit # None

\* C9: a run that completes synchronisation right after another one did,
\* with the same revision and copy-remote and the same source, leaves the
\* same commit checked out, the same remotes and a pristine tree, as the
\* first did.
C9_Idempotent ==
    \A p \in Procs :
        (/\ inv[p].pc = "exec"
         /\ inv[p].prev.set
         /\ inv[p].prev.rev = inv[p].rev
         /\ inv[p].prev.creq = inv[p].creq
         /\ inv[p].prev.seen = inv[p].seen)
        => LET now == last[WorkPathOf(inv[p].root)] IN
           /\ now.head = inv[p].prev.head
           /\ now.remotes = inv[p].prev.remotes
           /\ now.pristine /\ inv[p].prev.pristine

\* C10: a run without --branch and --commit, on a source whose HEAD is on a
\* branch, in which no engine call fails without cause, ends synchronisation
\* with the workspace at the tip its clone or fetch saw, on a fresh work root
\* as on an existing workspace.
C10_FollowsSource ==
    [][\A p \in Procs :
         (/\ inv[p].pc = "checkout"
          /\ inv[p].headq
          /\ inv[p].rev.tag = "Branch"
          /\ inv'[p].pc \in {"exec", "unwind"}
          /\ ~inv'[p].spur)
         => /\ inv'[p].pc = "exec"
            /\ HeadCommit(repo'[WorkPathOf(inv[p].root)]) = inv[p].seen[inv[p].rev.v]]_vars

\* Invocation p has called op and it succeeded.
Called(p, op) == \E i \in 1..Len(run[p].ops) : run[p].ops[i].op = op
Succeeded(p, op) ==
    \E i \in 1..Len(run[p].ops) : run[p].ops[i].op = op /\ run[p].ops[i].ok

\* C11: in a run with --json-out nothing but the JSON record reaches
\* standard output; the record is written at most once, only after the user
\* command has succeeded, exactly once by the time main returns Ok, and not
\* at all when main returns an error.
C11_JsonExclusive ==
    \A p \in Procs :
        run[p].json
        => /\ run[p].out = {}
           /\ run[p].njson <= 1
           /\ run[p].njson = 1
              => /\ Succeeded(p, "command")
                 /\ inv[p].pc \in {"unwind", "done", "killed"}
                 /\ inv[p].err = None
           /\ inv[p].pc = "done" => run[p].njson = 1
           /\ (inv[p].pc \in {"failed", "aborted"} \/ inv[p].err # None)
              => run[p].njson = 0

\* A --json-out run on an existing workspace has returned Ok.
C11_Witness ==
    \E p \in Procs :
        /\ run[p].json
        /\ inv[p].pc = "done"
        /\ run[p].njson = 1
        /\ Succeeded(p, "fetch")

\* C12: different repository roots have different lock files and different
\* workspace directories; an acquisition attempt succeeds whenever no live
\* invocation on the SAME root holds the lock, whatever invocations on other
\* roots hold; and a step of an invocation changes no workspace but the one
\* of its own root.
C12_Independent ==
    [][/\ \A a, b \in Sources :
            a # b => LockPathOf(a) # LockPathOf(b) /\ WorkPathOf(a) # WorkPathOf(b)
       /\ \A p \in Procs :
            (/\ inv[p].pc = "lock"
             /\ inv'[p].pc \notin {"lock", "killed"}
             /\ ~\E q \in Procs :
                   q # p /\ inv[q].pc \in LockScope /\ inv[q].root = inv[p].root)
            => inv'[p].pc = "rev"
       /\ \A p \in Procs :
            inv'[p] # inv[p]
            => \A s \in Sources :
                 s # inv[p].root => repo'[WorkPathOf(s)] = repo[WorkPathOf(s)]]_vars

\* Invocations on different roots are inside their locks together, both at
\* work on their workspaces.
C12_Witness ==
    \E p, q \in Procs :
        /\ inv[p].root = "s1" /\ inv[q].root = "s2"
        /\ inv[p].pc = "exec"
        /\ inv[q].pc = "clean"
        /\ WorkDir(p).isrepo /\ WorkDir(q).isrepo

\* The engine operations and the user command, as the run log names them.
PipelineOps ==
    {"resolve-root", "resolve-head", "force-set-remote", "fetch", "clone",
     "get-remote-url", "reset", "clean", "checkout", "command"}

\* How many times invocation p has called op.
Calls(p, op) == Cardinality({i \in 1..Len(run[p].ops) : run[p].ops[i].op = op})

\* Nothing was called after a call that failed, and main is returning the
\* error (or has, or the process was killed).
AbortsOnFailure(p) ==
    LET ops == run[p].ops IN
    /\ \A i \in 1..Len(ops) : ~ops[i].ok => i = Len(ops)
    /\ (Len(ops) > 0 /\ ~ops[Len(ops)].ok)
       => /\ inv[p].pc \in {"unwind", "failed", "aborted", "killed"}
          /\ inv[p].pc = "unwind" => inv[p].err # None

\* The user command was called only after a clone or fetch, the reset, the
\* clean and the checkout had all succeeded.
CommandAfterSync(p) ==
    Called(p, "command")
    => /\ Succeeded(p, "clone") \/ Succeeded(p, "fetch")
       /\ Succeeded(p, "reset") /\ Succeeded(p, "clean") /\ Succeeded(p, "checkout")

\* C13 as stated: every engine operation and the user command is called at
\* most once in a run, nothing is called after a failure, and the user
\* command runs only after every synchronisation step succeeded.
C13_OncePerOperation ==
    \A p \in Procs :
        /\ \A op \in PipelineOps : Calls(p, op) <= 1
        /\ AbortsOnFailure(p)
        /\ CommandAfterSync(p)

\* C13 amended: no call is repeated, that is, no operation is called twice
\* with the same argument (force-set-remote is called once for the reserved
\* remote and, with --copy-remote, once more for the copied one); nothing is
\* called after a failure; the user command runs only after every
\* synchronisation step succeeded.
C13_NoRetry ==
    \A p \in Procs :
        /\ \A i, j \in 1..Len(run[p].ops) :
             (run[p].ops[i].op = run[p].ops[j].op /\ run[p].ops[i].arg = run[p].ops[j].arg)
             => i = j
        /\ \A op \in PipelineOps \ {"force-set-remote"} : Calls(p, op) <= 1
        /\ Calls(p, "force-set-remote") <= 2
        /\ AbortsOnFailure(p)
        /\ CommandAfterSync(p)

\* A run whose fetch failed has returned the error, the fetch being the last
\* thing it called.
C13_Witness ==
    \E p \in Procs :
        /\ inv[p].pc = "aborted"
        /\ Len(run[p].ops) > 0
        /\ run[p].ops[Len(run[p].ops)] = [op |-> "fetch", arg |-> FERSK_ORIGIN, ok |-> FALSE]

\* Invocation p called a, it succeeded, and later p called b.
OkBefore(p, a, b) ==
    \E i, j \in 1..Len(run[p].ops) :
        i < j /\ run[p].ops[i].op = a /\ run[p].ops[i].ok /\ run[p].ops[j].op = b

\* C14: in a run the clean is called only after the reset succeeded, the
\* checkout only after both succeeded, the user command only after the
\* checkout succeeded, on the clone path as on the fetch path; and when the
\* checkout or the user command is about to run, the workspace has neither
\* modified nor untracked files.
C14_PristineOrder ==
    \A p \in Procs :
        /\ Called(p, "clean") => OkBefore(p, "reset", "clean")
        /\ Called(p, "checkout")
           => /\ OkBefore(p, "reset", "checkout")
              /\ OkBefore(p, "clean", "checkout")
              /\ Succeeded(p, "clone") \/ Succeeded(p, "fetch")
        /\ Called(p, "command") => OkBefore(p, "checkout", "command")
        /\ inv[p].pc \in {"checkout", "exec"}
           => /\ Succeeded(p, "reset") /\ Succeeded(p, "clean")
              /\ ~WorkDir(p).modified /\ ~WorkDir(p).untracked

\* A run on an existing workspace is about to start the user command.
C14_Witness ==
    \E p \in Procs :
        /\ inv[p].pc = "exec"
        /\ Succeeded(p, "fetch")
        /\ Succeeded(p, "checkout")

\* Invocation p called op with argument arg and it succeeded.
SucceededWith(p, op, arg) ==
    \E i \in 1..Len(run[p].ops) :
        run[p].ops[i] = [op |-> op, arg |-> arg, ok |-> TRUE]

\* C15: with the lock held, a run whose workspace directory exists sets the
\* URL of fersk-origin to the source root, then fetches fersk-origin, and
\* never clones; a run whose workspace directory does not exist creates it,
\* then clones, and never fetches.  No step removes a workspace directory,
\* so once it exists every run takes the fetch path.
C15_CloneOrFetch ==
    [][\A p \in Procs :
         LET wp == WorkPathOf(inv[p].root) IN
         /\ (inv[p].pc = "exists" /\ inv'[p].pc \notin {"exists", "killed"})
            => /\ inv[p].lock
               /\ inv'[p].pc = IF repo[wp].exists THEN "force_remote" ELSE "mkdir"
         /\ (inv[p].pc = "force_remote" /\ inv'[p].pc = "fetch")
            => repo'[wp].remotes[FERSK_ORIGIN] = inv[p].root
         /\ ~(Called(p, "clone") /\ Called(p, "fetch"))
         /\ Called(p, "fetch")
            => /\ SucceededWith(p, "force-set-remote", FERSK_ORIGIN)
               /\ OkBefore(p, "force-set-remote", "fetch")
               /\ \A i \in 1..Len(run[p].ops) :
                    run[p].ops[i].op = "fetch" => run[p].ops[i].arg = FERSK_ORIGIN
               /\ ~Called(p, "mkdir")
         /\ Called(p, "clone")
            => /\ Succeeded(p, "mkdir")
               /\ ~Called(p, "force-set-remote") \/ Succeeded(p, "clone")
         /\ \A w \in WorkPaths :
              /\ repo[w].exists => repo'[w].exists
              /\ repo[w].isrepo => repo'[w].isrepo]_vars

\* A run on a workspace an earlier run cloned has set the reserved remote and
\* is about to fetch it.
C15_Witness ==
    \E p \in Procs :
        /\ inv[p].pc = "fetch"
        /\ WorkDir(p).remotes["origin"] = inv[p].root
        /\ WorkDir(p).remotes[FERSK_ORIGIN] = inv[p].root

\* C16: the ref passed to checkout is fersk-origin/<branch> when the
\* effective revision is a branch and the bare commit id when it is a
\* commit; a checkout of a commit that succeeds leaves the workspace detached
\* at exactly that commit, a checkout of a branch leaves it at the tip of
\* fersk-origin/<branch>.
C16_CheckoutTarget ==
    [][\A p \in Procs :
         (inv[p].pc = "checkout" /\ inv'[p].pc \notin {"checkout", "killed"})
         => LET rev == inv[p].rev
                wd == repo'[WorkPathOf(inv[p].root)]
                call == run'[p].ops[Len(run'[p].ops)]
            IN /\ call.op = "checkout"
               /\ rev.tag = "Branch" => call.arg = FERSK_ORIGIN \o "/" \o rev.v
               /\ rev.tag = "Commit" => call.arg = rev.v
               /\ (inv'[p].pc = "exec" /\ rev.tag = "Commit")
                  => wd.head = rev.v /\ wd.head \notin Branches
               /\ (inv'[p].pc = "exec" /\ rev.tag = "Branch")
                  => HeadCommit(wd) = wd.refs[FERSK_ORIGIN \o "/" \o rev.v]]_vars

\* --commit X was given while the source's main is at Y: the workspace is
\* detached at X and the user command is about to run.
C16_Witness ==
    \E p \in Procs :
        /\ inv[p].pc = "exec"
        /\ inv[p].rev = [tag |-> "Commit", v |-> "X"]
        /\ repo[inv[p].root].refs["main"] = "Y"
        /\ WorkDir(p).head = "X"
        /\ SucceededWith(p, "checkout", "X")

\* C17: an invocation that tries the lock while a live process holds it ends
\* at once with the error: the step changes no directory and no lock file,
\* the invocation has changed no directory before it, and after it the
\* process does nothing more (the slot can only start a new invocation).
C17_ContentionFailsFast ==
    [][\A p \in Procs :
         /\ (/\ inv[p].pc = "lock"
             /\ inv'[p] # inv[p]
             /\ inv'[p].pc # "killed"
             /\ lockfile[LockPathOf(inv[p].root)] # NoPid
             /\ inv[lockfile[LockPathOf(inv[p].root)]].pc \in LivePCs)
            => /\ inv'[p].pc = "failed"
               /\ ~inv'[p].lock
               /\ repo' = repo /\ lockfile' = lockfile
         /\ (inv[p].pc \in {"root", "lockdir", "lock"} /\ inv'[p] # inv[p])
            => repo' = repo
         /\ (inv[p].pc = "failed" /\ inv'[p] # inv[p])
            => /\ inv'[p].pc \in {"root", "failed"}
               /\ repo' = repo /\ lockfile' = lockfile]_vars

\* An invocation is about to try the lock while another, alive, holds it and
\* is fetching into the workspace.
C17_Witness ==
    \E p, q \in Procs :
        /\ inv[p].pc = "lock"
        /\ lockfile[LockPathOf(inv[p].root)] = q
        /\ inv[q].pc = "fetch"
        /\ inv[q].lock

\* Invocations whose repository root is resolved.
Resolved == {p \in Procs : inv[p].pc \in {"lockdir", "lock"} \cup LockScope}

\* C18: the lock file an invocation holds is the one at its identity, the
\* hash of its normalized root; two invocations have the same workspace
\* directory exactly when they have the same lock file; invocations on the
\* same root have both in common; so no two invocations hold their locks
\* with the same workspace directory.
C18_SameIdentity ==
    /\ \A p \in Procs :
         (inv[p].pc \in LockScope \ {"unwind"} /\ inv[p].lock)
         => lockfile[pidlock_path(hash_bytes(inv[p].root))] = p
    /\ \A p, q \in Resolved :
         /\ (work_path(hash_bytes(inv[p].root)) = work_path(hash_bytes(inv[q].root)))
            <=> (pidlock_path(hash_bytes(inv[p].root))
                   = pidlock_path(hash_bytes(inv[q].root)))
         /\ inv[p].root = inv[q].root
            => hash_bytes(inv[p].root) = hash_bytes(inv[q].root)
    /\ \A p, q \in Procs :
         (/\ p # q
          /\ inv[p].pc \in LockScope \ {"unwind"} /\ inv[p].lock
          /\ inv[q].pc \in LockScope \ {"unwind"} /\ inv[q].lock)
         => WorkPathOf(inv[p].root) # WorkPathOf(inv[q].root)

\* An invocation on s1 is checking out under the lock of s1 while one on s2
\* is about to try the lock of s2; both workspaces have been cloned.
C18_Witness ==
    \E p, q \in Procs :
        /\ inv[p].root = "s1" /\ inv[p].pc = "checkout" /\ inv[p].lock
        /\ lockfile[LockPathOf("s1")] = p
        /\ inv[q].root = "s2" /\ inv[q].pc = "lock"
        /\ repo[WorkPathOf("s1")].isrepo /\ repo[WorkPathOf("s2")].isrepo

\* C19: a step that takes a slot with no invocation in it straight to the
\* error end is the rejection of an empty command vector.  Nothing has been
\* called by then (no root resolution, no lock, no git operation, no
\* command, no output), the lock directory, the lock files and every
\* directory are as they were, and the process does nothing more: the slot
\* can only start a new invocation.
C19_EmptyCommandRejected ==
    [][\A p \in Procs :
         /\ (/\ inv[p].pc \in {"idle"} \cup EndedPCs
             /\ inv'[p].pc = "failed"
             /\ <<inv'[p], run'[p]>> # <<inv[p], run[p]>>)
            => /\ run'[p].ops = <<>> /\ run'[p].out = {} /\ run'[p].njson = 0
               /\ inv'[p].root = None /\ ~inv'[p].lock
               /\ locksdir' = locksdir
               /\ lockfile' = lockfile
               /\ repo' = repo
         /\ (inv[p].pc = "failed" /\ run[p].ops = <<>> /\ inv'[p] # inv[p])
            => /\ inv'[p].pc = "root"
               /\ run'[p].ops = <<>>
               /\ locksdir' = locksdir /\ lockfile' = lockfile /\ repo' = repo]_vars

\* An invocation with no command has been rejected, its log empty, beside a
\* workspace that an earlier invocation in the slot cloned.
C19_Witness ==
    \E p \in Procs :
        /\ inv[p].pc = "failed"
        /\ run[p].ops = <<>>
        /\ locksdir
        /\ repo[WorkPathOf("s1")].isrepo

====
